---- MODULE Spec2Model ----
(***************************************************************************)
(* payu.manifest: the three manifests (exe, input, restart) of a payu      *)
(* experiment, PayuManifest.check_fast (fast hash check with full hash     *)
(* fallback), Manifest.setup (loading, reproduce preconditions, inference  *)
(* of the run counter from restartNNN directory names),                    *)
(* Manifest.make_links (materialization, then verification),               *)
(* PayuManifest.add_filepath and Manifest.copy_manifests.                  *)
(*                                                                         *)
(* Names of directories and files are sequences of one-character strings,  *)
(* so that str.startswith, str.lstrip and int() are computed character by  *)
(* character.  A fullpath is the sequence of its components, the last one  *)
(* the basename; the filesystem root is the empty sequence.                *)
(***************************************************************************)
EXTENDS Integers, Sequences, FiniteSets, TLC

VARIABLES
    disk,          \* manifest files on disk: doc -> [exists, doc]
    mem,           \* the PayuManifest objects: doc -> [githash, keys, data]
    reproduce,     \* Manifest.reproduce
    cfg,           \* manifest_config: [reproduce_exe, overwrite]
    env,           \* os.environ.get('PAYU_CURRENT_RUN'): EnvAbsent, "" or a value
    have,          \* have_exe_manifest, have_input_manifest, have_restart_manifest
    models,        \* expt.models: model -> its have_restart_manifest
    counter,       \* expt.counter
    counter0,      \* expt.counter when setup was called
    pc,            \* position of the run
    idx,           \* setup: index of the restart path of the for loop (line 253)
    head,          \* setup: head of the ancestry walk (line 254, 258)
    tail,          \* setup: tail of the ancestry walk (line 258)
    step,          \* make_links: index of the next call of MakeLinksPlan
    work,          \* the work area: doc -> (path -> [kind, src]) as materialized
    calls,         \* the calls make_links has made so far, in order
    hashvals,      \* check_fast: failed path -> the fast hashes observed (line 50-52)
    pending,       \* check_fast: failed paths the loop of line 60 has not reached
    entry,         \* check_fast: self.data as it was when the call started
    dumps,         \* number of dumps the current check_fast has made
    diag,          \* check_fast: the lines printed by line 72-75
    ignore,        \* PayuManifest.ignore: the list of glob patterns
    again,         \* the check_fast called on a manifest once make_links has ended
    linkops,       \* the copies and links made so far, in order
    lastAdd,       \* the last add_filepath: its arguments and the document before it
    archive        \* copy_manifests: the destination, and the copy that raised

vars == <<disk, mem, reproduce, cfg, env, have, models, counter, counter0, pc,
          idx, head, tail, step, work, calls, hashvals, pending, entry, dumps, diag,
          ignore, again, linkops, lastAdd, archive>>

(***************************************************************************)
(* Bounds                                                                  *)
(***************************************************************************)
\* paths of the document check_fast is studied on (CheckSpec)
MaxPaths == 3
\* directory components of a restart fullpath (WalkSpec)
MaxDepth == 2
\* calls of add_filepath on the manifest used on its own (DocSpec)
MaxAdds == 3

(***************************************************************************)
(* Hash policy (line 28-31)                                                *)
(***************************************************************************)
fast_hashes == <<"binhash">>
full_hashes == <<"md5">>
all_hashes == fast_hashes \o full_hashes

\* Python's None, as a stored digest
None == "None"

Range(s) == {s[i] : i \in DOMAIN s}

(***************************************************************************)
(* Names and paths                                                         *)
(***************************************************************************)
RestartToken == <<"r", "e", "s", "t", "a", "r", "t">>
Restart003 == RestartToken \o <<"0", "0", "3">>
RestartX == RestartToken \o <<"x">>
RestartA7 == RestartToken \o <<"a", "7">>
RestartNeg1 == RestartToken \o <<"-", "1">>
WorkDir == <<"w", "o", "r", "k">>
BaseName == <<"f">>

Docs == {"exe", "input", "restart"}
Models == {"m1", "m2"}
PathNames == <<"p1", "p2", "p3", "p4", "p5">>

\* the value of tail before the first os.path.split of a walk
Unset == <<"<unset>">>
Root == <<>>
EnvAbsent == "<absent>"

(***************************************************************************)
(* The files the manifests track.  A file is its bytes and its mtime; md5  *)
(* reads the bytes, binhash the bytes, the size and the mtime.  The tracked*)
(* files do not change during a run: every one holds the new bytes.        *)
(***************************************************************************)
FileAt(fullpath) == [bytes |-> "new", mtime |-> 2]

Md5Of(f) == IF f.bytes = "new" THEN "md5_new" ELSE "md5_old"

BinhashOf(f) ==
    IF f.bytes = "new"
    THEN (IF f.mtime = 2 THEN "bin_new_2" ELSE "bin_new_1")
    ELSE (IF f.mtime = 2 THEN "bin_old_2" ELSE "bin_old_1")

\* yamanifest's hash(fullpath, fn)
Hash(fn, fullpath) ==
    IF fn = "md5" THEN Md5Of(FileAt(fullpath)) ELSE BinhashOf(FileAt(fullpath))

\* what a manifest written by an earlier run may hold for a hash
StoredBinhash == {None, "bin_new_2", "bin_new_1", "bin_old_1"}
StoredMd5 == {None, "md5_new", "md5_old"}

get_git_revision_hash == "rev_now"

(***************************************************************************)
(* Documents                                                               *)
(***************************************************************************)
EmptyData == [p \in {} |-> None]
EmptyDoc == [githash |-> None, keys |-> <<>>, data |-> EmptyData]
NoFile == [exists |-> FALSE, doc |-> EmptyDoc]
OnDisk(doc) == [exists |-> TRUE, doc |-> doc]

Record(fullpath, bin, md5, copy) ==
    [fullpath |-> fullpath, hashes |-> [binhash |-> bin, md5 |-> md5], copy |-> copy]

\* the documents over the first n path names whose records are drawn from recs
DocsOver(n, recs) ==
    {[githash |-> "rev_old", keys |-> SubSeq(PathNames, 1, n), data |-> d] :
        d \in [Range(SubSeq(PathNames, 1, n)) -> recs]}

\* PayuManifest.dump: stamp the header, then write header and data
Dumped(doc) == [doc EXCEPT !.githash = get_git_revision_hash]

(***************************************************************************)
(* yamanifest primitives used by check_fast                                *)
(***************************************************************************)
\* check of one path: the first hash kind of hashfn (every kind is computable for
\* a regular file) with shortcircuit, every kind without; the result is the
\* mapping of the kinds that disagree to the value observed
Mismatches(data, p, hashfn, shortcircuit) ==
    LET kinds == IF shortcircuit THEN {hashfn[1]} ELSE Range(hashfn)
        bad == {fn \in kinds : data[p].hashes[fn] # Hash(fn, data[p].fullpath)}
    IN  [fn \in bad |-> Hash(fn, data[p].fullpath)]

\* check_file(filepaths, hashvals, hashfn, shortcircuit): hashvals afterwards
CheckFile(data, paths, hashfn, shortcircuit) ==
    LET failed == {p \in paths : DOMAIN Mismatches(data, p, hashfn, shortcircuit) # {}}
    IN  [p \in failed |-> Mismatches(data, p, hashfn, shortcircuit)]

\* add(filepaths, hashfn, force, shortcircuit)
Add(data, paths, hashfn, force, shortcircuit) ==
    LET kinds == IF shortcircuit THEN {hashfn[1]} ELSE Range(hashfn)
    IN  [p \in DOMAIN data |->
            IF p \in paths
            THEN [data[p] EXCEPT !.hashes =
                    [fn \in DOMAIN data[p].hashes |->
                        IF fn \in kinds /\ (force \/ data[p].hashes[fn] = None)
                        THEN Hash(fn, data[p].fullpath)
                        ELSE data[p].hashes[fn]]]
            ELSE data[p]]

(***************************************************************************)
(* Strings and paths, as Python computes them                              *)
(***************************************************************************)
\* str.startswith
startswith(s, prefix) ==
    Len(s) >= Len(prefix) /\ SubSeq(s, 1, Len(prefix)) = prefix

\* str.lstrip(chars): drop every leading character that is in chars
lstrip(s, chars) ==
    LET keep == {i \in 1..Len(s) : s[i] \notin chars}
    IN  IF keep = {} THEN <<>>
        ELSE SubSeq(s, CHOOSE i \in keep : \A j \in keep : i <= j, Len(s))

Digits == <<"0", "1", "2", "3", "4", "5", "6", "7", "8", "9">>
IsDigit(c) == c \in Range(Digits)
DigitValue(c) == (CHOOSE i \in DOMAIN Digits : Digits[i] = c) - 1

Unsigned(s) == IF s # <<>> /\ s[1] \in {"+", "-"} THEN Tail(s) ELSE s

\* int(s) does not raise ValueError: an optional sign, then one digit or more
\* (the names of the model hold no blanks and no underscores)
IntParses(s) ==
    Unsigned(s) # <<>> /\ \A i \in DOMAIN Unsigned(s) : IsDigit(Unsigned(s)[i])

RECURSIVE Magnitude(_)
Magnitude(s) ==
    IF s = <<>> THEN 0
    ELSE 10 * Magnitude(SubSeq(s, 1, Len(s) - 1)) + DigitValue(s[Len(s)])

\* int(s), where it parses
int(s) == IF s[1] = "-" THEN 0 - Magnitude(Unsigned(s)) ELSE Magnitude(Unsigned(s))

\* os.path.dirname of a fullpath
dirname(fullpath) == SubSeq(fullpath, 1, Len(fullpath) - 1)

\* os.path.split: <<head, tail>>; the root splits into itself and the empty name
split(path) ==
    IF path = Root THEN <<Root, <<>>>>
    ELSE <<SubSeq(path, 1, Len(path) - 1), path[Len(path)]>>

(***************************************************************************)
(* PayuManifest.check_fast                                                 *)
(***************************************************************************)
\* line 50-52 with every path reported as failed
FastCheckEveryPath(doc) ==
    [p \in Range(doc.keys) |->
        [fn \in {fast_hashes[1]} |-> Hash(fn, doc.data[p].fullpath)]]

\* line 50-52: hashvals after the fast check of every path
FastCheck(doc) == CheckFile(doc.data, Range(doc.keys), fast_hashes, TRUE)

\* line 55-57 left out
SaveNothing(data, hv) == data

\* line 55-57: store the fast hashes observed for the failed paths
SaveFastHashes(data, hv) ==
    [p \in DOMAIN data |->
        IF p \in DOMAIN hv
        THEN [data[p] EXCEPT !.hashes =
                [fn \in DOMAIN data[p].hashes |->
                    IF fn \in DOMAIN hv[p] THEN hv[p][fn] ELSE data[p].hashes[fn]]]
        ELSE data[p]]

\* line 85 without force: a digest already stored is kept
LenientUpdateUnforced(data, failed) == Add(data, failed, full_hashes, FALSE, FALSE)

\* line 85: the full hashes of the failed paths, forced
LenientUpdate(data, failed) == Add(data, failed, full_hashes, TRUE, FALSE)

\* line 63 with the fast hash kinds in place of the full ones
FullCheckFastKinds(data, p) == CheckFile(data, {p}, fast_hashes, FALSE)

\* line 62-63: tmphash after the full check of one failed path
FullCheck(data, p) == CheckFile(data, {p}, full_hashes, FALSE)

\* line 63 where a full hash that was never stored is not compared
FullCheckOkAbsentPasses(data, p) ==
    data[p].hashes["md5"] = None \/ DOMAIN CheckFile(data, {p}, full_hashes, FALSE) = {}

\* line 63: the full hashes of the path agree with the stored ones
FullCheckOk(data, p) == DOMAIN FullCheck(data, p) = {}

\* line 67: add_fast(filepath, force=True)
add_fast(data, p) == Add(data, {p}, fast_hashes, TRUE, TRUE)

\* line 72-75 with the fresh value printed in the place of the stored one
DiagnosticsFreshTwice(data, tmphash) ==
    {[path |-> p, hash |-> fn, observed |-> tmphash[p][fn], stored |-> tmphash[p][fn]] :
        p \in DOMAIN tmphash, fn \in Range(full_hashes)}

\* line 72-75: one line per path and hash kind of tmphash
Diagnostics(data, tmphash) ==
    {[path |-> p, hash |-> fn, observed |-> tmphash[p][fn],
      stored |-> data[p].hashes[fn]] : p \in DOMAIN tmphash, fn \in Range(full_hashes)}

(***************************************************************************)
(* Manifest.setup                                                          *)
(***************************************************************************)
\* line 188 without the reproduce flag
ReproduceExeFromConfig == cfg.reproduce_exe

\* line 188
reproduce_exe == reproduce /\ cfg.reproduce_exe

\* line 209-223: the input and exe documents after their conditional load
LoadedInputExe ==
    [d \in Docs |->
        IF d = "input" /\ disk["input"].exists /\ ~cfg.overwrite THEN disk["input"].doc
        ELSE IF d = "exe" /\ disk["exe"].exists THEN disk["exe"].doc
        ELSE mem[d]]

\* line 207-223 with the tests of len() left out
LoadedFlagsByExistence(m) ==
    [exe |-> have.exe \/ disk["exe"].exists,
     input |-> have.input \/ (disk["input"].exists /\ ~cfg.overwrite),
     restart |-> disk["restart"].exists]

\* line 207-223: the presence flags after the conditional loads
LoadedFlags(m) ==
    [exe |-> have.exe \/ (disk["exe"].exists /\ Len(m["exe"].keys) > 0),
     input |-> have.input
               \/ (disk["input"].exists /\ ~cfg.overwrite /\ Len(m["input"].keys) > 0),
     restart |-> disk["restart"].exists]

\* line 229-244 without the check of the exe manifest (line 242-244)
ReproduceExitNoExe(m, hv) ==
    IF ~disk["restart"].exists THEN "load_error"
    ELSE IF Len(m["restart"].keys) = 0 THEN "restart_empty"
    ELSE IF ~hv.input THEN "input_empty"
    ELSE "none"

\* line 229-244: the exit setup takes under reproduce, "none" when it takes none;
\* loading a restart manifest that is not on disk raises
ReproduceExit(m, hv) ==
    IF ~disk["restart"].exists THEN "load_error"
    ELSE IF Len(m["restart"].keys) = 0 THEN "restart_empty"
    ELSE IF ~hv.input THEN "input_empty"
    ELSE IF reproduce_exe /\ ~hv.exe THEN "exe_empty"
    ELSE "none"

\* line 252 with the test inverted
EnvSetInverted(e) == ~(e # EnvAbsent /\ e # "")

\* line 252: os.environ.get('PAYU_CURRENT_RUN') is true
EnvSet(e) == e # EnvAbsent /\ e # ""

\* line 261: the text handed to int()
NumberText(name) == lstrip(name, Range(RestartToken))

\* line 259-263: the directory name resolves the counter
Resolves(name) == startswith(name, RestartToken) /\ IntParses(NumberText(name))

\* line 269: the for loop over the restart paths is left
ShortCircuit(c) == c = 0

Setup ==
    /\ pc = "init"
    /\ LET m1 == LoadedInputExe
           hv1 == LoadedFlags(m1)
           m2 == IF reproduce /\ disk["restart"].exists
                 THEN [m1 EXCEPT !["restart"] = disk["restart"].doc] ELSE m1
           exit == ReproduceExit(m2, hv1)
       IN  /\ mem' = m2
           /\ IF ~reproduce
              THEN /\ have' = [hv1 EXCEPT !.restart = FALSE]
                   /\ pc' = "returned"
                   /\ UNCHANGED <<models, idx>>
              ELSE IF exit # "none"
              THEN /\ have' = hv1
                   /\ pc' = "setup_fatal"
                   /\ UNCHANGED <<models, idx>>
              ELSE /\ have' = [hv1 EXCEPT !.restart = TRUE]
                   /\ models' = [m \in Models |-> TRUE]
                   /\ IF EnvSet(env)
                      THEN pc' = "returned" /\ UNCHANGED idx
                      ELSE pc' = "walk_for" /\ idx' = 1
    /\ UNCHANGED <<disk, reproduce, cfg, env, counter, counter0, head, tail, step,
                   work, calls, hashvals, pending, entry, dumps, diag,
                   ignore, again, linkops, lastAdd, archive>>

\* line 253-254: the next restart path of the for loop, or the end of setup
WalkNextPath ==
    /\ pc = "walk_for"
    /\ LET keys == mem["restart"].keys
       IN  IF idx <= Len(keys)
           THEN /\ head' = dirname(mem["restart"].data[keys[idx]].fullpath)
                /\ tail' = Unset
                /\ pc' = "walk_while"
           ELSE /\ pc' = "returned"
                /\ UNCHANGED <<head, tail>>
    /\ UNCHANGED <<disk, mem, reproduce, cfg, env, have, models, counter, counter0,
                   idx, step, work, calls, hashvals, pending, entry, dumps, diag,
                   ignore, again, linkops, lastAdd, archive>>

\* line 257-266: one turn of the while loop
WalkStep ==
    /\ pc = "walk_while"
    /\ LET sp == split(head)
       IN  /\ head' = sp[1]
           /\ tail' = sp[2]
           /\ IF Resolves(sp[2])
              THEN /\ counter' = int(NumberText(sp[2])) + 1
                   /\ pc' = "walk_after"
              ELSE UNCHANGED <<counter, pc>>
    /\ UNCHANGED <<disk, mem, reproduce, cfg, env, have, models, counter0, idx,
                   step, work, calls, hashvals, pending, entry, dumps, diag,
                   ignore, again, linkops, lastAdd, archive>>

\* line 269: after the walk of one path
WalkAfter ==
    /\ pc = "walk_after"
    /\ IF ShortCircuit(counter)
       THEN pc' = "returned" /\ UNCHANGED idx
       ELSE pc' = "walk_for" /\ idx' = idx + 1
    /\ UNCHANGED <<disk, mem, reproduce, cfg, env, have, models, counter, counter0,
                   head, tail, step, work, calls, hashvals, pending, entry, dumps, diag,
                   ignore, again, linkops, lastAdd, archive>>

(***************************************************************************)
(* Manifest.make_links                                                     *)
(***************************************************************************)
LinkCall(d) == [op |-> "make_links", doc |-> d, reproduce |-> FALSE]
CheckCall(d, r) == [op |-> "check_fast", doc |-> d, reproduce |-> r]

\* line 291-302 with each document verified right after its materialization
MakeLinksPlanInterleaved ==
    <<LinkCall("exe"), CheckCall("exe", reproduce /\ cfg.reproduce_exe),
      LinkCall("input"), CheckCall("input", reproduce),
      LinkCall("restart"), CheckCall("restart", reproduce)>>

\* line 291-302: the calls of Manifest.make_links, in order
MakeLinksPlan ==
    <<LinkCall("exe"), LinkCall("input"), LinkCall("restart"),
      CheckCall("exe", reproduce_exe), CheckCall("input", reproduce),
      CheckCall("restart", reproduce)>>

\* line 133-142
copy_file(doc, p) == IF p \in DOMAIN doc.data THEN doc.data[p].copy ELSE FALSE

\* line 155-158 with a link made whatever the copy flag
MaterializedLinkOnly(doc, p) == [kind |-> "link", src |-> doc.data[p].fullpath]

\* line 155-158: the copy or the link made for one path
Materialized(doc, p) ==
    [kind |-> IF copy_file(doc, p) THEN "copy" ELSE "link", src |-> doc.data[p].fullpath]

\* line 149-158: the work area entries of the first n paths of the document
LinksOf(doc, n) ==
    [p \in Range(SubSeq(doc.keys, 1, n)) |-> Materialized(doc, p)]

\* line 149-158: the copies and links of the first n paths, in the order of line 147
OpsOf(d, doc, n) ==
    [i \in 1..n |-> [doc |-> d, path |-> doc.keys[i],
                     kind |-> Materialized(doc, doc.keys[i]).kind,
                     src |-> Materialized(doc, doc.keys[i]).src]]

\* the call make_links is about to make (setup has returned, or a call has ended)
InMakeLinks == pc \in {"returned", "make_links"} /\ step <= Len(MakeLinksPlan)

\* the call that is running: one of make_links, or one made on the manifest later
CurrentCall == IF step <= Len(MakeLinksPlan) THEN MakeLinksPlan[step] ELSE again

\* check_fast has been called: by make_links (line 295, 299, 302) or by CallCheckFast
CheckFastCalled ==
    \/ InMakeLinks /\ MakeLinksPlan[step].op = "check_fast"
    \/ pc = "again"

\* the position after the running call has ended
Advance ==
    IF step > Len(MakeLinksPlan)
    THEN /\ pc' = "idle"
         /\ UNCHANGED step
    ELSE /\ step' = step + 1
         /\ pc' = IF step = Len(MakeLinksPlan) THEN "done" ELSE "make_links"

\* PayuManifest.make_links (line 144-158) on the document of the call
Materialize ==
    /\ InMakeLinks
    /\ MakeLinksPlan[step].op = "make_links"
    /\ LET d == MakeLinksPlan[step].doc
       IN  /\ work' = [work EXCEPT ![d] = LinksOf(mem[d], Len(mem[d].keys))]
           /\ linkops' = linkops \o OpsOf(d, mem[d], Len(mem[d].keys))
           /\ calls' = Append(calls, MakeLinksPlan[step])
    /\ Advance
    /\ UNCHANGED <<disk, mem, reproduce, cfg, env, have, models, counter, counter0,
                   idx, head, tail, hashvals, pending, entry, dumps, diag,
                   ignore, again, lastAdd, archive>>

\* PayuManifest.make_links with the exception of the k-th path caught: the call ends
MaterializeFailSwallowed ==
    /\ InMakeLinks
    /\ MakeLinksPlan[step].op = "make_links"
    /\ LET d == MakeLinksPlan[step].doc
       IN  /\ \E k \in 1..Len(mem[d].keys) :
                 /\ work' = [work EXCEPT ![d] = LinksOf(mem[d], k - 1)]
                 /\ linkops' = linkops \o OpsOf(d, mem[d], k - 1)
           /\ calls' = Append(calls, MakeLinksPlan[step])
    /\ Advance
    /\ UNCHANGED <<disk, mem, reproduce, cfg, env, have, models, counter, counter0,
                   idx, head, tail, hashvals, pending, entry, dumps, diag,
                   ignore, again, lastAdd, archive>>

\* PayuManifest.make_links when shutil.copy or make_symlink raises at the k-th path
MaterializeFail ==
    /\ InMakeLinks
    /\ MakeLinksPlan[step].op = "make_links"
    /\ LET d == MakeLinksPlan[step].doc
       IN  /\ \E k \in 1..Len(mem[d].keys) :
                 /\ work' = [work EXCEPT ![d] = LinksOf(mem[d], k - 1)]
                 /\ linkops' = linkops \o OpsOf(d, mem[d], k - 1)
           /\ calls' = Append(calls, MakeLinksPlan[step])
    /\ pc' = "links_fatal"
    /\ UNCHANGED <<disk, mem, reproduce, cfg, env, have, models, counter, counter0,
                   idx, head, tail, step, hashvals, pending, entry, dumps, diag,
                   ignore, again, lastAdd, archive>>

\* check_fast up to line 58, and line 77-89 when reproduce is false
CheckFast ==
    /\ CheckFastCalled
    /\ LET d == CurrentCall.doc
           hv == FastCheck(mem[d])
           saved == SaveFastHashes(mem[d].data, hv)
           healed == Dumped([mem[d] EXCEPT !.data = LenientUpdate(saved, DOMAIN hv)])
       IN  /\ calls' = IF step <= Len(MakeLinksPlan) THEN Append(calls, CurrentCall)
                       ELSE calls
           /\ entry' = mem[d].data
           /\ hashvals' = hv
           /\ diag' = {}
           /\ IF DOMAIN hv = {}
              THEN /\ Advance
                   /\ dumps' = 0
                   /\ pending' = {}
                   /\ UNCHANGED <<disk, mem>>
              ELSE IF CurrentCall.reproduce
              THEN /\ mem' = [mem EXCEPT ![d].data = saved]
                   /\ pending' = DOMAIN hv
                   /\ pc' = "strict"
                   /\ dumps' = 0
                   /\ UNCHANGED <<disk, step>>
              ELSE /\ mem' = [mem EXCEPT ![d] = healed]
                   /\ disk' = [disk EXCEPT ![d] = OnDisk(healed)]
                   /\ dumps' = 1
                   /\ pending' = {}
                   /\ Advance
    /\ UNCHANGED <<reproduce, cfg, env, have, models, counter, counter0, idx, head,
                   tail, work,
                   ignore, again, linkops, lastAdd, archive>>

\* line 60-76: one turn of the loop over hashvals, in any order of its keys
StrictStep ==
    /\ pc = "strict"
    /\ LET d == CurrentCall.doc
       IN  \E p \in pending :
             IF FullCheckOk(mem[d].data, p)
             THEN LET doc2 == Dumped([mem[d] EXCEPT !.data = add_fast(mem[d].data, p)])
                  IN  /\ mem' = [mem EXCEPT ![d] = doc2]
                      /\ disk' = [disk EXCEPT ![d] = OnDisk(doc2)]
                      /\ dumps' = dumps + 1
                      /\ pending' = pending \ {p}
                      /\ IF pending = {p} THEN Advance ELSE UNCHANGED <<pc, step>>
                      /\ UNCHANGED diag
             ELSE /\ diag' = Diagnostics(mem[d].data, FullCheck(mem[d].data, p))
                  /\ pc' = "check_fatal"
                  /\ UNCHANGED <<disk, mem, dumps, pending, step>>
    /\ UNCHANGED <<reproduce, cfg, env, have, models, counter, counter0, idx, head,
                   tail, work, calls, hashvals, entry,
                   ignore, again, linkops, lastAdd, archive>>

(***************************************************************************)
(* PayuManifest.add_filepath, and check_fast called on the manifest itself *)
(***************************************************************************)
HiddenGlob == <<".", "*">>
TmpGlob == <<"*", ".", "t">>
HiddenName == <<".", "h">>
SubDir == <<"d">>

\* line 193-194: the ignore patterns when the configuration names none
DefaultIgnore == <<HiddenGlob>>

\* line 107: the directories of the filesystem
isdir(fullpath) == fullpath = Root \/ fullpath[Len(fullpath)] = SubDir

\* line 112: os.path.basename
basename(fullpath) == IF fullpath = Root THEN <<>> ELSE fullpath[Len(fullpath)]

\* line 112: fnmatch.fnmatch, for patterns of literal characters, ? and *
RECURSIVE fnmatch(_, _)
fnmatch(name, pattern) ==
    IF pattern = <<>> THEN name = <<>>
    ELSE IF pattern[1] = "*"
    THEN \E k \in 0..Len(name) : fnmatch(SubSeq(name, k + 1, Len(name)), Tail(pattern))
    ELSE IF name = <<>> THEN FALSE
    ELSE (pattern[1] = "?" \/ pattern[1] = name[1]) /\ fnmatch(Tail(name), Tail(pattern))

\* line 107-113 with the test of the patterns left out
SkippedDirsOnly(fullpath) == isdir(fullpath)

\* line 107-113: add_filepath returns before it touches the document
Skipped(fullpath) ==
    \/ isdir(fullpath)
    \/ \E i \in DOMAIN ignore : fnmatch(basename(fullpath), ignore[i])

\* line 115-123 with the hashes set to None on every call
AddedRecordReset(data, filepath, fullpath, copy) == Record(fullpath, None, None, copy)

\* line 115-123: the record of filepath after add_filepath
AddedRecord(data, filepath, fullpath, copy) ==
    IF filepath \in DOMAIN data
    THEN [data[filepath] EXCEPT !.fullpath = fullpath, !.copy = @ \/ copy]
    ELSE Record(fullpath, None, None, copy)

\* line 98-123
add_filepath(doc, filepath, fullpath, copy) ==
    IF Skipped(fullpath) THEN doc
    ELSE [doc EXCEPT
            !.keys = IF filepath \in DOMAIN doc.data THEN @ ELSE Append(@, filepath),
            !.data = [p \in DOMAIN doc.data \cup {filepath} |->
                        IF p = filepath
                        THEN AddedRecord(doc.data, filepath, fullpath, copy)
                        ELSE doc.data[p]]]

\* the manifest that is used on its own, and the arguments it is called with
DirectDoc == "restart"
AddPaths == {PathNames[1], PathNames[2]}
AddFullpaths ==
    {<<WorkDir, BaseName>>, <<HiddenName, BaseName>>, <<WorkDir, HiddenName>>,
     <<WorkDir, SubDir>>}
IgnoreLists == {DefaultIgnore, <<TmpGlob, HiddenGlob>>, <<>>}

NoCall == CheckCall("None", FALSE)
NoAdd == [filepath |-> None, fullpath |-> Root, copy |-> FALSE, before |-> EmptyDoc,
          n |-> 0]

\* a call of add_filepath on the manifest, one of MaxAdds at most
AddFilepath ==
    /\ pc = "idle"
    /\ lastAdd.n < MaxAdds
    /\ \E filepath \in AddPaths : \E fullpath \in AddFullpaths : \E copy \in BOOLEAN :
          /\ mem' = [mem EXCEPT ![DirectDoc] = add_filepath(@, filepath, fullpath, copy)]
          /\ lastAdd' = [filepath |-> filepath, fullpath |-> fullpath, copy |-> copy,
                         before |-> mem[DirectDoc], n |-> lastAdd.n + 1]
    /\ UNCHANGED <<disk, reproduce, cfg, env, have, models, counter, counter0, pc, idx,
                   head, tail, step, work, calls, hashvals, pending, entry, dumps,
                   diag, ignore, again, linkops, archive>>

\* a call of check_fast on the manifest, in either mode, once make_links has ended
CallCheckFast ==
    /\ pc \in {"done", "idle"}
    /\ \E r \in BOOLEAN : again' = CheckCall(DirectDoc, r)
    /\ pc' = "again"
    /\ step' = Len(MakeLinksPlan) + 1
    /\ lastAdd' = [NoAdd EXCEPT !.n = lastAdd.n]
    /\ UNCHANGED <<disk, mem, reproduce, cfg, env, have, models, counter, counter0,
                   idx, head, tail, work, calls, hashvals, pending, entry, dumps,
                   diag, ignore, linkops, archive>>

(***************************************************************************)
(* Manifest.copy_manifests                                                 *)
(***************************************************************************)
\* line 308-310: the order of the three copies
CopyOrder == <<"exe", "input", "restart">>

NoArchive == [files |-> [d \in Docs |-> NoFile], raised |-> None]

\* line 307-312: the destination when the k-th copy raises (none does when k is
\* past the last); the copies after the k-th are not made
CopiedUpTo(k) ==
    [files |-> [d \in Docs |->
                  IF \E i \in 1..(k - 1) : CopyOrder[i] = d THEN disk[d] ELSE NoFile],
     raised |-> IF k \in DOMAIN CopyOrder THEN CopyOrder[k] ELSE None]

\* copy_manifests once make_links has ended: shutil.copy (line 164) raises for a
\* manifest file that is not on disk, and can raise for any other
CopyManifests ==
    /\ pc = "done"
    /\ \E k \in 1..(Len(CopyOrder) + 1) :
          /\ \A i \in 1..(k - 1) : disk[CopyOrder[i]].exists
          /\ archive' = CopiedUpTo(k)
    /\ pc' = "archived"
    /\ UNCHANGED <<disk, mem, reproduce, cfg, env, have, models, counter, counter0,
                   idx, head, tail, step, work, calls, hashvals, pending, entry, dumps,
                   diag, ignore, again, linkops, lastAdd>>

(***************************************************************************)
(* Initial states                                                          *)
(***************************************************************************)
EmptyLinks == [p \in {} |-> [kind |-> "link", src |-> Root]]
NoHashvals == [p \in {} |-> [fn \in {} |-> None]]

PassDoc(fullpath) ==
    [githash |-> "rev_old", keys |-> SubSeq(PathNames, 1, 1),
     data |-> [p \in {PathNames[1]} |-> Record(fullpath, "bin_new_2", "md5_new", FALSE)]]

WrittenEmpty == [githash |-> "rev_old", keys |-> <<>>, data |-> EmptyData]

\* the state of a Manifest that __init__ has built (line 172-202)
Constructed ==
    /\ mem = [d \in Docs |-> EmptyDoc]
    /\ have = [exe |-> FALSE, input |-> FALSE, restart |-> FALSE]
    /\ models = [m \in Models |-> FALSE]
    /\ counter = counter0
    /\ pc = "init"
    /\ idx = 1
    /\ head = Root
    /\ tail = Unset
    /\ step = 1
    /\ work = [d \in Docs |-> EmptyLinks]
    /\ calls = <<>>
    /\ hashvals = NoHashvals
    /\ pending = {}
    /\ entry = EmptyData
    /\ dumps = 0
    /\ diag = {}
    /\ ignore = DefaultIgnore
    /\ again = NoCall
    /\ linkops = <<>>
    /\ lastAdd = NoAdd
    /\ archive = NoArchive

ExeRecords ==
    {Record(<<WorkDir, BaseName>>, "bin_new_2", "md5_new", FALSE),
     Record(<<WorkDir, BaseName>>, "bin_new_2", "md5_new", TRUE),
     Record(<<WorkDir, BaseName>>, "bin_new_1", "md5_new", FALSE),
     Record(<<WorkDir, BaseName>>, "bin_old_1", "md5_old", FALSE)}

InputRecords ==
    {Record(<<WorkDir, BaseName>>, "bin_new_2", "md5_new", FALSE),
     Record(<<WorkDir, BaseName>>, "bin_new_1", "md5_new", FALSE),
     Record(<<WorkDir, BaseName>>, "bin_old_1", "md5_old", FALSE),
     Record(<<WorkDir, BaseName>>, None, None, FALSE)}

RestartRecords ==
    {Record(<<Restart003, BaseName>>, "bin_new_2", "md5_new", FALSE),
     Record(<<Restart003, BaseName>>, "bin_old_1", "md5_old", FALSE),
     Record(<<WorkDir, RestartNeg1, BaseName>>, "bin_new_1", "md5_new", FALSE),
     Record(<<WorkDir, BaseName>>, "bin_new_2", "md5_new", FALSE)}

FilesOnDisk(docs) == {NoFile} \cup {OnDisk(doc) : doc \in {WrittenEmpty} \cup docs}

Init ==
    /\ disk \in [exe : FilesOnDisk(DocsOver(1, ExeRecords)),
                 input : FilesOnDisk(DocsOver(1, InputRecords)),
                 restart : FilesOnDisk(DocsOver(1, RestartRecords)
                                       \cup DocsOver(2, RestartRecords))]
    /\ reproduce \in BOOLEAN
    /\ cfg \in [reproduce_exe : BOOLEAN, overwrite : BOOLEAN]
    /\ env \in {EnvAbsent, "", "7"}
    /\ counter0 \in {0, 7}
    /\ Constructed

\* the restart fullpaths of at most n directories over these names
DirNames == {Restart003, RestartX, RestartA7, RestartNeg1, WorkDir}
Fullpaths(n) ==
    {dirs \o <<BaseName>> : dirs \in UNION {[1..k -> DirNames] : k \in 0..n}}

WalkRecords == {Record(fp, "bin_new_2", "md5_new", FALSE) : fp \in Fullpaths(MaxDepth)}

\* setup of a reproduce run whose exe and input manifests are in place
WalkInit ==
    /\ disk \in [exe : {OnDisk(PassDoc(<<WorkDir, BaseName>>))},
                 input : {OnDisk(PassDoc(<<WorkDir, BaseName>>))},
                 restart : {OnDisk(doc) : doc \in DocsOver(1, WalkRecords)
                                                   \cup DocsOver(2, WalkRecords)}]
    /\ reproduce = TRUE
    /\ cfg = [reproduce_exe |-> TRUE, overwrite |-> FALSE]
    /\ env = EnvAbsent
    /\ counter0 = 0
    /\ Constructed

CheckRecords ==
    {Record(<<Restart003, BaseName>>, b, m, FALSE) : b \in StoredBinhash, m \in StoredMd5}

\* make_links about to verify the restart document (line 302): setup has returned,
\* the three documents are materialized, the exe and input documents have passed
CheckInit ==
    /\ reproduce \in BOOLEAN
    /\ cfg = [reproduce_exe |-> TRUE, overwrite |-> FALSE]
    /\ env = "7"
    /\ counter0 = 7
    /\ counter = 7
    /\ \E n \in 0..MaxPaths : \E doc \in DocsOver(n, CheckRecords) :
          /\ reproduce => n > 0
          /\ mem = [exe |-> PassDoc(<<WorkDir, BaseName>>),
                    input |-> PassDoc(<<WorkDir, BaseName>>),
                    restart |-> doc]
          /\ disk = [d \in Docs |-> OnDisk(mem[d])]
          /\ work = [d \in Docs |-> LinksOf(mem[d], Len(mem[d].keys))]
    /\ have = [exe |-> TRUE, input |-> TRUE, restart |-> reproduce]
    /\ models = [m \in Models |-> reproduce]
    /\ pc = "make_links"
    /\ idx = 1
    /\ head = Root
    /\ tail = Unset
    /\ step = 6
    /\ calls = SubSeq(MakeLinksPlan, 1, 5)
    /\ hashvals = NoHashvals
    /\ pending = {}
    /\ entry = EmptyData
    /\ dumps = 0
    /\ diag = {}
    /\ ignore = DefaultIgnore
    /\ again = NoCall
    /\ linkops = OpsOf("exe", mem["exe"], Len(mem["exe"].keys))
                 \o OpsOf("input", mem["input"], Len(mem["input"].keys))
                 \o OpsOf("restart", mem["restart"], Len(mem["restart"].keys))
    /\ lastAdd = NoAdd
    /\ archive = NoArchive

(***************************************************************************)
(* Specifications                                                          *)
(***************************************************************************)
Next ==
    \/ Setup
    \/ WalkNextPath
    \/ WalkStep
    \/ WalkAfter
    \/ Materialize
    \/ MaterializeFail
    \/ CheckFast
    \/ StrictStep
    \/ CopyManifests

Spec == Init /\ [][Next]_vars

WalkNext == Setup \/ WalkNextPath \/ WalkStep \/ WalkAfter

WalkSpec == WalkInit /\ [][WalkNext]_vars

CheckNext == CheckFast \/ StrictStep \/ CallCheckFast

CheckSpec == CheckInit /\ [][CheckNext]_vars

\* a PayuManifest used on its own: records added, and verified in either mode
DocInit ==
    /\ disk = [d \in Docs |-> NoFile]
    /\ reproduce = FALSE
    /\ cfg = [reproduce_exe |-> TRUE, overwrite |-> FALSE]
    /\ env = EnvAbsent
    /\ counter0 = 0
    /\ mem = [d \in Docs |-> EmptyDoc]
    /\ have = [exe |-> FALSE, input |-> FALSE, restart |-> FALSE]
    /\ models = [m \in Models |-> FALSE]
    /\ counter = counter0
    /\ pc = "idle"
    /\ idx = 1
    /\ head = Root
    /\ tail = Unset
    /\ step = Len(MakeLinksPlan) + 1
    /\ work = [d \in Docs |-> EmptyLinks]
    /\ calls = <<>>
    /\ hashvals = NoHashvals
    /\ pending = {}
    /\ entry = EmptyData
    /\ dumps = 0
    /\ diag = {}
    /\ ignore \in IgnoreLists
    /\ again = NoCall
    /\ linkops = <<>>
    /\ lastAdd = NoAdd
    /\ archive = NoArchive

DocNext == AddFilepath \/ CallCheckFast \/ CheckFast \/ StrictStep

DocSpec == DocInit /\ [][DocNext]_vars

(***************************************************************************)
(* Properties of check_fast (CheckSpec)                                    *)
(***************************************************************************)
\* the last call make_links has made
LastCall == calls[Len(calls)]

\* the document of the check_fast that is running or has run last
Checked == LastCall.doc

\* a check_fast with this reproduce argument has started
CheckStarted(r) ==
    /\ calls # <<>>
    /\ LastCall.op = "check_fast"
    /\ LastCall.reproduce = r
    /\ pc \in {"strict", "check_fatal", "make_links", "done"}

\* the paths whose stored fast hash disagreed with the file when the call started
FailedAtEntry ==
    {p \in DOMAIN entry : entry[p].hashes["binhash"] # BinhashOf(FileAt(entry[p].fullpath))}

\* the stored full hash of the path agreed with the file when the call started
FullMatches(p) == entry[p].hashes["md5"] = Md5Of(FileAt(entry[p].fullpath))

\* the failed paths the strict loop has gone through
Processed == FailedAtEntry \ pending

\* C1: in check_fast with reproduce=true a failed path whose full hash differs from
\* the stored one ends the call fatally, and the manifest on disk never holds, for
\* such a path, a fast hash equal to the current fast hash of the changed file.
C1_ChangedPathNeverAccepted ==
    CheckStarted(TRUE) =>
        /\ (pc \in {"make_links", "done"} => \A p \in FailedAtEntry : FullMatches(p))
        /\ \A p \in FailedAtEntry :
              ~FullMatches(p) =>
                  disk[Checked].doc.data[p].hashes["binhash"]
                      # BinhashOf(FileAt(entry[p].fullpath))

\* C2: after check_fast with reproduce=false every path that failed the fast check
\* holds a full hash that is not None and equals the md5 of its file, whatever was
\* stored, and the manifest on disk equals the one in memory.
C2_LenientRecordsFullHashes ==
    (CheckStarted(FALSE) /\ FailedAtEntry # {}) =>
        /\ \A p \in FailedAtEntry :
              /\ mem[Checked].data[p].hashes["md5"] # None
              /\ mem[Checked].data[p].hashes["md5"] = Md5Of(FileAt(entry[p].fullpath))
        /\ disk[Checked] = OnDisk(mem[Checked])
        /\ pc # "check_fatal"

C2_Witness ==
    /\ CheckStarted(FALSE)
    /\ pc = "done"
    /\ \E p \in FailedAtEntry : entry[p].hashes["md5"] = "md5_old"
    /\ \E p \in FailedAtEntry : entry[p].hashes["md5"] = None

\* C3: in check_fast with reproduce=true a path that fails the fast check while its
\* full hash agrees with the stored one gets its fast hash recomputed, keeps its
\* full hash, is written to disk so, and does not end the call fatally.
C3_StrictRefreshesFastHash ==
    CheckStarted(TRUE) =>
        /\ \A p \in Processed :
              /\ FullMatches(p)
              /\ mem[Checked].data[p].hashes["binhash"] = BinhashOf(FileAt(entry[p].fullpath))
              /\ mem[Checked].data[p].hashes["md5"] = entry[p].hashes["md5"]
              /\ disk[Checked].doc.data[p] = mem[Checked].data[p]
        /\ (pc = "check_fatal" => \E p \in FailedAtEntry : ~FullMatches(p))
        /\ (pc \in {"make_links", "done"} /\ FailedAtEntry # {} =>
               /\ pending = {}
               /\ disk[Checked] = OnDisk(mem[Checked]))

C3_Witness ==
    /\ CheckStarted(TRUE)
    /\ pc = "done"
    /\ Cardinality(FailedAtEntry) > 1
    /\ dumps = Cardinality(FailedAtEntry)

\* C10: a stored digest of None is a mismatch: a record whose fast hash is None
\* always fails the fast check, the lenient branch then stores its full hash, and
\* the strict branch never accepts a failed record whose full hash is None.
C10_AbsentDigestIsMismatch ==
    /\ CheckStarted(TRUE) \/ CheckStarted(FALSE) =>
          \A p \in DOMAIN entry :
              entry[p].hashes["binhash"] = None =>
                  /\ p \in DOMAIN hashvals
                  /\ ~LastCall.reproduce =>
                        mem[Checked].data[p].hashes["md5"] = Md5Of(FileAt(entry[p].fullpath))
    /\ CheckStarted(TRUE) =>
          \A p \in DOMAIN hashvals :
              entry[p].hashes["md5"] = None => p \in pending /\ pc \in {"strict", "check_fatal"}

C10_Witness ==
    /\ CheckStarted(TRUE)
    /\ pc = "check_fatal"
    /\ \E line \in diag :
          /\ line.stored = None
          /\ entry[line.path].hashes["binhash"] = None

(***************************************************************************)
(* Properties of setup and make_links (Spec)                               *)
(***************************************************************************)
\* the precondition of a reproduce run, on what setup has loaded
ReproduceReady ==
    /\ Len(mem["restart"].keys) > 0
    /\ have.input
    /\ (reproduce /\ cfg.reproduce_exe) => have.exe

\* C4: setup with reproduce=true returns only if the restart manifest loaded
\* non-empty, have_input_manifest holds and reproduce_exe implies have_exe_manifest;
\* otherwise it ends fatally, with nothing materialized and no model marked; when
\* it returns every model is marked.
C4_ReproducePreconditions ==
    reproduce =>
        /\ (pc \notin {"init", "setup_fatal"} =>
               ReproduceReady /\ \A m \in Models : models[m])
        /\ (pc = "setup_fatal" =>
               /\ ~(disk["restart"].exists /\ Len(disk["restart"].doc.keys) > 0
                    /\ have.input /\ (cfg.reproduce_exe => have.exe))
               /\ calls = <<>>
               /\ \A d \in Docs : DOMAIN work[d] = {}
               /\ \A m \in Models : ~models[m])

C4_Witness ==
    /\ reproduce
    /\ cfg.reproduce_exe
    /\ pc = "returned"
    /\ have.exe

\* the calls of make_links as documented, on the flags of the run
ExpectedCalls ==
    <<[op |-> "make_links", doc |-> "exe", reproduce |-> FALSE],
      [op |-> "make_links", doc |-> "input", reproduce |-> FALSE],
      [op |-> "make_links", doc |-> "restart", reproduce |-> FALSE],
      [op |-> "check_fast", doc |-> "exe", reproduce |-> reproduce /\ cfg.reproduce_exe],
      [op |-> "check_fast", doc |-> "input", reproduce |-> reproduce],
      [op |-> "check_fast", doc |-> "restart", reproduce |-> reproduce]>>

\* C5: make_links materializes exe, input, restart in that order, then verifies exe
\* with reproduce_exe, input with reproduce, restart with reproduce; no check_fast
\* starts before the three documents are materialized.
C5_LinksBeforeChecks ==
    /\ Len(calls) <= Len(ExpectedCalls)
    /\ calls = SubSeq(ExpectedCalls, 1, Len(calls))
    /\ (\E i \in DOMAIN calls : calls[i].op = "check_fast") =>
          \A d \in Docs :
              /\ \E i \in DOMAIN calls : calls[i] = [op |-> "make_links", doc |-> d,
                                                     reproduce |-> FALSE]
              /\ DOMAIN work[d] = Range(mem[d].keys)

C5_Witness ==
    /\ pc = "done"
    /\ reproduce
    /\ Len(calls) = 6
    /\ \A d \in Docs : DOMAIN work[d] # {}

InWalk == pc \in {"walk_for", "walk_while", "walk_after"}

\* C9 as amended: when PAYU_CURRENT_RUN is set to a non-empty value, setup starts
\* no ancestry walk and the run counter stays what it was before setup.
C9_OverrideSuppressesInference ==
    (env # EnvAbsent /\ env # "") => ~InWalk /\ counter = counter0

\* C9 as stated: when PAYU_CURRENT_RUN is present, setup starts no ancestry walk
\* and the run counter stays what it was before setup.
C9_PresentOverrideSuppressesInference ==
    env # EnvAbsent => ~InWalk /\ counter = counter0

C9_Witness ==
    /\ env = "7"
    /\ reproduce
    /\ pc = "returned"
    /\ \E p \in DOMAIN mem["restart"].data :
          mem["restart"].data[p].fullpath = <<Restart003, BaseName>>

(***************************************************************************)
(* Properties of the restart sequence inference (WalkSpec)                 *)
(***************************************************************************)
\* what follows the restart token in a directory name
Suffix(name) == SubSeq(name, Len(RestartToken) + 1, Len(name))

\* the name is restart<N>, N a number
Numbered(name) == startswith(name, RestartToken) /\ IntParses(Suffix(name))

\* the positions of the ancestor directories of the fullpath that are restart<N>
NumberedAncestors(fullpath) == {i \in 1..(Len(fullpath) - 1) : Numbered(fullpath[i])}

\* N of the nearest ancestor restart<N>, walking upward from the directory of the file
NearestNumber(fullpath) ==
    LET i == CHOOSE k \in NumberedAncestors(fullpath) :
                 \A j \in NumberedAncestors(fullpath) : j <= k
    IN  int(Suffix(fullpath[i]))

\* the fullpath of the restart path the for loop of setup is at
WalkedFullpath == mem["restart"].data[mem["restart"].keys[idx]].fullpath

\* C6: the walk of a restart path resolves the counter to N+1 for the nearest
\* ancestor directory named restart<N>; an ancestor that starts with the token but
\* has no numeric suffix is skipped.
C6_NearestRestartNumber ==
    pc = "walk_after" =>
        /\ NumberedAncestors(WalkedFullpath) # {}
        /\ counter = NearestNumber(WalkedFullpath) + 1

\* C7: the first resolved value wins: once the counter is resolved from one restart
\* path, no later restart path is scanned.
C7_FirstResolvedWins ==
    pc \in {"walk_while", "walk_after"} => idx = 1

\* C8: the ancestry walk ends at the filesystem root: once the root has been split
\* (head is the root, tail the empty name) the while loop is over.
C8_WalkStopsAtRoot ==
    ~(pc = "walk_while" /\ head = Root /\ tail = <<>>)

(***************************************************************************)
(* Further properties of check_fast (CheckSpec)                            *)
(***************************************************************************)
\* a check_fast of the restart manifest is running or has returned
CheckSeen ==
    /\ calls # <<>>
    /\ LastCall = CheckCall(DirectDoc, reproduce)
    /\ pc \in {"strict", "check_fatal", "make_links", "done", "idle"}

\* C11: when every tracked path passes the fast check, check_fast in either mode
\* changes no record, computes no full hash (no stored digest moves), performs no
\* dump, prints no diagnostic and returns normally.
C11_AllPassChangesNothing ==
    (CheckSeen /\ FailedAtEntry = {}) =>
        /\ pc \in {"make_links", "done", "idle"}
        /\ DOMAIN hashvals = {}
        /\ mem[Checked].data = entry
        /\ dumps = 0
        /\ diag = {}
        /\ disk[Checked].doc.data = entry
        /\ (step <= Len(MakeLinksPlan) + 1 /\ pc = "done" /\ again = NoCall)
              => disk[Checked].doc.githash # get_git_revision_hash

\* a strict call has returned over paths that all pass the fast check, one of them
\* with a stored full hash that no longer matches its file
C11_Witness ==
    /\ CheckSeen
    /\ pc = "done"
    /\ LastCall.reproduce
    /\ FailedAtEntry = {}
    /\ \E p \in DOMAIN entry : ~FullMatches(p)

\* the paths that failed the fast check and whose full hash differs from the stored one
Changed == {p \in FailedAtEntry : ~FullMatches(p)}

\* the diagnostic lines of a path: hash kind, fresh value, value stored before the call
LinesOf(p) ==
    {[path |-> p, hash |-> fn, observed |-> Hash(fn, entry[p].fullpath),
      stored |-> entry[p].hashes[fn]] : fn \in Range(full_hashes)}

\* C19: when check_fast with reproduce=true terminates fatally, the diagnostic of
\* exactly one changed path has been printed, the one the loop reached: its lines
\* give the hash kind, the fresh value and the value stored before the call.
C19_FatalPathDiagnosed ==
    (CheckSeen /\ pc = "check_fatal") =>
        \E p \in Changed \cap pending : diag = LinesOf(p)

\* C19 as stated: at the fatal end every changed path has its diagnostic
C19_EveryChangedPathDiagnosed ==
    (CheckSeen /\ pc = "check_fatal") =>
        \A p \in Changed : LinesOf(p) \subseteq diag

\* the call has ended fatally over a document with two changed paths
C19_Witness ==
    /\ CheckSeen
    /\ pc = "check_fatal"
    /\ Cardinality(Changed) >= 2
    /\ diag # {}

\* the record holds the current digest of its file for both hash kinds
Current(rec) ==
    /\ rec.hashes["binhash"] = BinhashOf(FileAt(rec.fullpath))
    /\ rec.hashes["md5"] = Md5Of(FileAt(rec.fullpath))

\* a call made on the manifest after make_links is running or has returned
LaterCall == step > Len(MakeLinksPlan) /\ pc \in {"strict", "check_fatal", "idle"}

\* C20: after check_fast with reproduce=false has returned, every path that failed
\* the fast check holds the current digests in memory and on disk, and a later
\* check_fast over the unchanged files, in either mode, finds no failed path,
\* changes no record and performs no dump.
C20_SelfHealingIdempotent ==
    /\ (CheckSeen /\ ~LastCall.reproduce /\ pc = "done") =>
          \A p \in FailedAtEntry :
              /\ Current(mem[Checked].data[p])
              /\ disk[Checked].exists
              /\ Current(disk[Checked].doc.data[p])
    /\ (CheckSeen /\ ~LastCall.reproduce /\ LaterCall) =>
          /\ pc = "idle"
          /\ DOMAIN hashvals = {}
          /\ mem[Checked].data = entry
          /\ dumps = 0
          /\ disk[Checked] = OnDisk(mem[Checked])

\* a strict call has returned after a lenient one that had healed the document
C20_Witness ==
    /\ CheckSeen
    /\ ~LastCall.reproduce
    /\ pc = "idle"
    /\ again.reproduce
    /\ disk[Checked].doc.githash = get_git_revision_hash
    /\ Len(mem[Checked].keys) >= 2

(***************************************************************************)
(* Properties of the run: flags, materialization, archive (Spec)           *)
(***************************************************************************)
\* every record of the document holds the current fast hash of its file
FastCurrent(doc) ==
    \A p \in DOMAIN doc.data :
        doc.data[p].hashes["binhash"] = BinhashOf(FileAt(doc.data[p].fullpath))

\* C12: with reproduce=false every check_fast of make_links is called lenient, none
\* ends fatally or enters the strict loop, and once make_links has ended every
\* loaded document is refreshed and equals its file on disk; with reproduce=true
\* and the reproduce_exe override false the check of the exe document is lenient
\* and a fatal end is never the one of the exe document.
C12_LenientNeverFatal ==
    /\ ~reproduce =>
          /\ \A i \in DOMAIN calls : ~calls[i].reproduce
          /\ pc \notin {"strict", "check_fatal"}
          /\ pc = "done" =>
                \A d \in Docs :
                    /\ FastCurrent(mem[d])
                    /\ mem[d].keys # <<>> => disk[d] = OnDisk(mem[d])
    /\ (reproduce /\ ~cfg.reproduce_exe) =>
          /\ \A i \in DOMAIN calls : calls[i].doc = "exe" => ~calls[i].reproduce
          /\ pc \in {"strict", "check_fatal"} => LastCall.doc # "exe"
          /\ CheckCall("exe", FALSE) \in Range(calls) =>
                /\ FastCurrent(mem["exe"])
                /\ mem["exe"].keys # <<>> => disk["exe"] = OnDisk(mem["exe"])

\* a run without reproduce has ended after it healed and dumped the exe and the
\* input documents
C12_Witness ==
    /\ ~reproduce
    /\ pc = "done"
    /\ cfg.reproduce_exe
    /\ disk["exe"].doc.githash = get_git_revision_hash
    /\ disk["input"].doc.githash = get_git_revision_hash

\* PayuManifest.make_links of the document was called and did not reach every path
LinkFailed(d) == LinkCall(d) \in Range(calls) /\ DOMAIN work[d] # Range(mem[d].keys)

\* the work area entry a path of the document is expected to have
ExpectedLink(d, p) ==
    [kind |-> IF mem[d].data[p].copy THEN "copy" ELSE "link",
     src |-> mem[d].data[p].fullpath]

\* C13: a link or copy that fails ends make_links fatally at that call: the paths
\* before the failing one keep their links, no later path and no later document
\* is materialized, no check_fast has run and no manifest has been dumped.
C13_LinkFailureIsFatal ==
    /\ pc = "links_fatal" => \E d \in Docs : LinkFailed(d)
    /\ \A d \in Docs :
          LinkFailed(d) =>
              /\ pc = "links_fatal"
              /\ LastCall = LinkCall(d)
              /\ calls = SubSeq(MakeLinksPlan, 1, Len(calls))
              /\ \A i \in DOMAIN calls : calls[i].op = "make_links"
              /\ \E k \in 0..(Len(mem[d].keys) - 1) :
                    /\ DOMAIN work[d] = Range(SubSeq(mem[d].keys, 1, k))
                    /\ \A p \in DOMAIN work[d] : work[d][p] = ExpectedLink(d, p)
              /\ \A e \in Docs :
                    /\ LinkCall(e) \notin Range(calls) => work[e] = EmptyLinks
                    /\ (LinkCall(e) \in Range(calls) /\ e # d)
                          => DOMAIN work[e] = Range(mem[e].keys)
                    /\ disk[e].doc.githash # get_git_revision_hash

\* the second path of the restart document failed: the link of the first path and
\* the links of the exe document are in place
C13_Witness ==
    /\ pc = "links_fatal"
    /\ LastCall.doc = "restart"
    /\ work["restart"] # EmptyLinks
    /\ work["exe"] # EmptyLinks

\* the copies and links made for the document, in the order they were made
OpsFor(d) == SelectSeq(linkops, LAMBDA o : o.doc = d)

SetupEnded == pc \notin {"init", "walk_for", "walk_while", "walk_after"}

\* setup has returned normally
SetupReturned == SetupEnded /\ pc # "setup_fatal"

\* the manifest file of the document is on disk with at least one path
NonEmptyOnDisk(d) == disk[d].exists /\ Len(disk[d].doc.keys) > 0

\* C17: once setup has ended, have_input_manifest is true iff the input file exists,
\* overwrite is off and the document is non-empty (with overwrite the document
\* stays empty), have_exe_manifest is true iff the exe file exists and is non-empty,
\* have_restart_manifest is false without reproduce; with reproduce it is true
\* when setup returned, and at a fatal end it is true iff the restart file exists;
\* reproduce with overwrite always ends setup fatally.
C17_PresenceFlags ==
    SetupEnded =>
        /\ have.input <=> (NonEmptyOnDisk("input") /\ ~cfg.overwrite)
        /\ cfg.overwrite => mem["input"] = EmptyDoc
        /\ have.exe <=> NonEmptyOnDisk("exe")
        /\ ~reproduce => ~have.restart
        /\ (reproduce /\ SetupReturned) => have.restart
        /\ (reproduce /\ pc = "setup_fatal") => (have.restart <=> disk["restart"].exists)
        /\ (reproduce /\ cfg.overwrite) => pc = "setup_fatal"

\* C17 as stated: with reproduce, have_restart_manifest is true iff setup returned
C17_RestartFlagIffReturned ==
    (SetupEnded /\ reproduce) => (have.restart <=> SetupReturned)

\* reproduce with overwrite: setup ended fatally at the input manifest, after the
\* restart manifest was loaded non-empty
C17_Witness ==
    /\ pc = "setup_fatal"
    /\ reproduce
    /\ cfg.overwrite
    /\ NonEmptyOnDisk("input")
    /\ NonEmptyOnDisk("restart")
    /\ have.restart
    /\ have.exe
    /\ ~have.input

\* C14: after copy_manifests every manifest file that is on disk and whose own copy
\* did not raise is at the destination.
C14_OtherManifestsCopied ==
    pc = "archived" =>
        \A d \in Docs :
            (archive.raised # d /\ disk[d].exists) => archive.files[d] = disk[d]

(***************************************************************************)
(* Properties of add_filepath (DocSpec)                                    *)
(***************************************************************************)
\* add_filepath has just returned
JustAdded == lastAdd.filepath # None

\* the fullpath is a directory, or its basename starts with a dot and the hidden
\* file pattern is in the ignore list (no name here ends in .t)
ExpectSkip(fullpath) ==
    \/ fullpath[Len(fullpath)] = SubDir
    \/ HiddenGlob \in Range(ignore) /\ fullpath[Len(fullpath)][1] = "."

\* C15: add_filepath with a directory fullpath, or a basename matching an ignore
\* pattern, leaves the document as it was; otherwise the document holds a record
\* of the path with the given fullpath and its other records are as they were;
\* the call returns in both cases.
C15_AddFilepathSkipsOrRecords ==
    JustAdded =>
        LET doc == mem[DirectDoc]
            before == lastAdd.before
        IN  /\ pc = "idle"
            /\ IF ExpectSkip(lastAdd.fullpath)
               THEN doc = before
               ELSE /\ DOMAIN doc.data = DOMAIN before.data \cup {lastAdd.filepath}
                    /\ Range(doc.keys) = DOMAIN doc.data
                    /\ Len(doc.keys) = Cardinality(DOMAIN doc.data)
                    /\ doc.data[lastAdd.filepath].fullpath = lastAdd.fullpath
                    /\ \A p \in DOMAIN before.data \ {lastAdd.filepath} :
                          doc.data[p] = before.data[p]

\* a hidden file was offered to a document that holds a record, under an ignore
\* list whose second pattern matches it
C15_Witness ==
    /\ JustAdded
    /\ lastAdd.fullpath = <<WorkDir, HiddenName>>
    /\ ignore = <<TmpGlob, HiddenGlob>>
    /\ mem[DirectDoc].keys # <<>>
    /\ mem[DirectDoc] = lastAdd.before

\* C16: at every point of any sequence of add_filepath and check_fast calls every
\* record, in memory and on disk, has a fullpath and a hashes entry for binhash
\* and for md5, and add_filepath on a path already present keeps its digests.
C16_RecordsKeepHashKinds ==
    /\ \A doc \in {mem[DirectDoc], disk[DirectDoc].doc} :
          \A p \in DOMAIN doc.data :
              /\ "fullpath" \in DOMAIN doc.data[p]
              /\ DOMAIN doc.data[p].hashes = Range(all_hashes)
    /\ (JustAdded /\ lastAdd.filepath \in DOMAIN lastAdd.before.data) =>
          mem[DirectDoc].data[lastAdd.filepath].hashes
              = lastAdd.before.data[lastAdd.filepath].hashes

\* a path whose digests a lenient check_fast had recorded was added again with
\* another fullpath
C16_Witness ==
    /\ JustAdded
    /\ lastAdd.filepath \in DOMAIN lastAdd.before.data
    /\ lastAdd.before.data[lastAdd.filepath].hashes["md5"] # None
    /\ lastAdd.before.data[lastAdd.filepath].fullpath # lastAdd.fullpath
    /\ mem[DirectDoc].data[lastAdd.filepath].fullpath = lastAdd.fullpath

============================================================================
